---- MODULE Spec2Model ----
(***************************************************************************)
(* The request/response runtime of the apmec v1.0 client                   *)
(* (apmecclient/v1_0/client.py): ClientBase.do_request, retry_request,     *)
(* get/put/delete/post, serialize/deserialize, get_attr_metadata,          *)
(* _handle_fault_response, exception_handler_v10, APIParamsCall, list and  *)
(* _pagination.                                                            *)
(*                                                                         *)
(* One client instance is driven by one caller.  The Python call stack is  *)
(* the variable stack (a sequence of frames, innermost last); flow says    *)
(* whether the innermost frame is running, or a callee has just returned   *)
(* or raised.  The HTTP transport and the server are the environment: each *)
(* transport call either raises ConnectionFailed or yields a status, a raw *)
(* body and a reason phrase.                                               *)
(***************************************************************************)
EXTENDS Naturals, Sequences, FiniteSets

VARIABLES
    format,          \* self.format
    retries,         \* self.retries
    raise_errors,    \* self.raise_errors
    EXTED_PLURALS,   \* ClientBase.EXTED_PLURALS, a class attribute (keys only)
    stack,           \* call stack of the caller's thread
    flow,            \* idle / run / return v / raise v
    op,              \* the client operation the caller has invoked
    gen,             \* the generator object made by _pagination
    h,               \* what an observer of this operation has seen so far
    peer             \* a request of a second caller on the same instance

vars == <<format, retries, raise_errors, EXTED_PLURALS, stack, flow, op, gen, h, peer>>

(***************************************************************************)
(* Bounds of the model.                                                    *)
(***************************************************************************)
MaxRetries == 1      \* retries is drawn from 0..MaxRetries
MaxItems == 2        \* items the server hands out during one list operation
CountCap == 3        \* observer counters of transport calls stop counting here
PageCap == 3         \* observer counters of pages stop counting here

(***************************************************************************)
(* Values.  Every value is a record with a tag t.                          *)
(***************************************************************************)
None == [t |-> "None"]

Dict(d) == [t |-> "dict", d |-> d]

IsDict(v) == v.t = "dict"

EmptyDict == Dict([k \in {} |-> ""])

HasKey(v, k) == IsDict(v) /\ k \in DOMAIN v.d

\* d[k] = v
SetKey(d, k, v) == Dict([x \in DOMAIN d.d \cup {k} |-> IF x = k THEN v ELSE d.d[x]])

\* A raw body on the wire: text is the character string, wire says what the
\* string encodes ("json", "xml", "text" for anything else, "none" for an
\* empty body) and doc is the structure it encodes.
Raw(wire, text, doc) == [t |-> "raw", wire |-> wire, text |-> text, doc |-> doc]

RawEmpty == Raw("none", "", None)

RawText(s) == Raw("text", s, None)

\* Python truthiness of a reply body or reason phrase.
Truthy(v) == IF v.t = "raw" THEN v.text # "" ELSE v.t # "None"

\* Documents the server can send.
DocApmecError ==
    Dict([ApmecError |-> Dict([type |-> "MeaNotFound",
                               message |-> "MEA x not found",
                               detail |-> "gone"])])

DocApmecErrorNoDetail ==
    Dict([ApmecError |-> Dict([type |-> "MeaNotFound",
                               message |-> "MEA x not found"])])

DocMessage == Dict([message |-> "generic failure"])

DocResource == Dict([mea |-> "x"])

DocExtensions == Dict([extensions |-> <<[alias |-> "a", namespace |-> "ns"]>>])

Encode(wire, doc, text) == Raw(wire, text, doc)

\* Exceptions.  id is the number of the transport call that raised a
\* ConnectionFailed (0 for an exception made by the client itself).
Exc(cls, status_code, msg, id) ==
    [t |-> "exc", cls |-> cls, status_code |-> status_code, msg |-> msg, id |-> id]

MsgLines(lines) == [t |-> "lines", lines |-> lines]

MsgFmt(status_code, content) ==
    [t |-> "fmt", status_code |-> status_code, content |-> content]

MsgObj(content) == [t |-> "obj", content |-> content]

MsgAttempts(n) == [t |-> "attempts", n |-> n]

Return(v) == [k |-> "return", v |-> v]

Raise(e) == [k |-> "raise", v |-> e]

Run == [k |-> "run", v |-> None]

Idle == [k |-> "idle", v |-> None]

Sat(n) == IF n < CountCap THEN n + 1 ELSE CountCap

SatPage(n) == IF n < PageCap THEN n + 1 ELSE PageCap


(***************************************************************************)
(* The call stack.                                                         *)
(***************************************************************************)
Top == stack[Len(stack)]

Rest == SubSeq(stack, 1, Len(stack) - 1)

At(fn, pc) == stack # <<>> /\ Top.fn = fn /\ Top.pc = pc

\* The innermost frame becomes f.
Goto(f) == Rest \o <<f>>

\* The innermost frame becomes f and calls g.
Call(f, g) == Rest \o <<f, g>>

\* Whether the caller is inside the metadata bootstrap of get_attr_metadata.
InBootstrap == \E n \in 1..Len(stack) : stack[n].fn = "get_attr_metadata"

FrameRetry(method, path, body, params) ==
    [fn |-> "retry_request", pc |-> "loop", method |-> method, path |-> path,
     body |-> body, params |-> params, i |-> 0]

FrameDoRequest(method, path, body, params) ==
    [fn |-> "do_request", pc |-> "start", method |-> method, path |-> path,
     body |-> body, params |-> params, suffix |-> "", status_code |-> 0]

FrameSerialize(data) == [fn |-> "serialize", pc |-> "start", data |-> data]

FrameDeserialize(data, status_code) ==
    [fn |-> "deserialize", pc |-> "start", data |-> data, status_code |-> status_code]

FrameGetAttrMetadata ==
    [fn |-> "get_attr_metadata", pc |-> "start", old_request_format |-> ""]

\* Query parameters: q is the set of <<key, value>> pairs; parsed says that
\* they came out of urlparse.parse_qs (every value a list).
Params(q, parsed) == [t |-> "params", q |-> q, parsed |-> parsed]

NoParams == Params({}, FALSE)

\* with_params(*args, **kwargs); kwargs holds at most the format keyword.
FrameWithParamsKw(function, kwargs) ==
    [fn |-> "with_params", pc |-> "start", function |-> function, _format |-> "",
     kwargs |-> kwargs, body |-> None, params |-> kwargs]

FrameWithParams(function) == FrameWithParamsKw(function, NoParams)

FrameHandleFault(status_code, response_body) ==
    [fn |-> "_handle_fault_response", pc |-> "start", status_code |-> status_code,
     response_body |-> response_body]

(***************************************************************************)
(* Program constants and pure helpers.                                     *)
(***************************************************************************)
\* requests.codes.ok, created, accepted, no_content
SuccessCodes == {200, 201, 202, 204}

\* A success test that takes every 2xx status.
IsSuccess2xx(status_code) == status_code \in 200..299

IsSuccess(status_code) == status_code \in SuccessCodes

\* content_type(): "application/%s" % self.format
ContentType(fmt) == [app |-> fmt]

\* A loop over range(self.retries): one attempt too few.
MaxAttemptsShort(r) == r

\* max_attempts = self.retries + 1
MaxAttempts(r) == r + 1

\* A summary that names the attempt count whatever retries is.
SummaryMsgCounted(r) == MsgAttempts(MaxAttempts(r))

\* The message of the ConnectionFailed raised once the loop is exhausted.
SummaryMsg(r) ==
    IF r # 0 THEN MsgAttempts(MaxAttempts(r))
    ELSE MsgLines(<<"Failed to connect Apmec server">>)

\* An except clause that catches every exception.
IsAnyException(e) == TRUE

\* except exceptions.ConnectionFailed
IsConnectionFailed(e) == e.cls = "ConnectionFailed"


(***************************************************************************)
(* The environment: what one transport call can answer.                    *)
(***************************************************************************)
Response(status_code, raw, reason) ==
    [t |-> "resp", status_code |-> status_code, raw |-> raw, reason |-> reason]

\* The transport raises ConnectionFailed.
Fail == [t |-> "fail"]

JsonResource == Encode("json", DocResource, "{mea}")

XmlResource == Encode("xml", DocResource, "<mea/>")

JsonApmecError == Encode("json", DocApmecError, "{ApmecError}")

XmlApmecError == Encode("xml", DocApmecError, "<ApmecError/>")

JsonMessage == Encode("json", DocMessage, "{message}")

JsonExtensions == Encode("json", DocExtensions, "{extensions}")

\* Answers to a request for a single resource.
ResourceResponses ==
    { Response(200, b, RawText("OK")) :
        b \in {RawEmpty, RawText("internal error"), JsonResource, XmlResource} }
    \cup
    { Response(c, JsonResource, RawText("OK")) : c \in {201, 202} }
    \cup
    { Response(204, b, RawText("OK")) : b \in {RawEmpty, RawText("internal error")} }
    \cup
    { Response(404, b, RawText("reason")) :
        b \in {RawEmpty, RawText("internal error"), JsonApmecError, XmlApmecError,
               JsonMessage} }
    \cup
    { Response(404, RawEmpty, RawEmpty),
      Response(203, JsonApmecError, RawText("reason")),
      Response(500, RawText("internal error"), RawText("reason")) }

\* Answers to the extensions list request of the metadata bootstrap.
ExtensionsResponses ==
    { Response(200, JsonExtensions, RawText("OK")),
      Response(404, JsonApmecError, RawText("reason")) }

\* A pagination link {rel, href}; q is the query string of the href.
Link(rel, q) == [rel |-> rel, href |-> q]

Q1 == {<<"marker", "m1">>}

Q2 == {<<"marker", "m2">>, <<"page_reverse", "True">>}

LinkLists ==
    { <<>>,
      <<Link("next", Q1)>>,
      <<Link("previous", Q1)>>,
      <<Link("self", Q1), Link("next", Q2), Link("next", Q1)>> }

\* The items of a page: none, or the next item the server holds (the server
\* numbers its items and has handed out the first sent of them).
ItemLists(sent) == {<<>>} \cup (IF sent < MaxItems THEN {<<sent + 1>>} ELSE {})

\* A collection envelope; "items" stands for the collection's key and
\* "links" for its "<collection>_links" key.
Pages(sent) ==
    { Dict([items |-> its]) : its \in ItemLists(sent) }
    \cup { Dict([items |-> its, links |-> ls]) :
             its \in ItemLists(sent), ls \in LinkLists }

\* Answers to a request for a collection, in the wire format the path suffix
\* asks for.
PageResponses(suffix, sent) ==
    { Response(200, Encode(suffix, page, "{page}"), RawText("OK")) :
        page \in Pages(sent) }
    \cup
    { Response(200, Encode(suffix, DocResource, "{mea}"), RawText("OK")),
      Response(204, RawEmpty, RawText("OK")),
      Response(404, JsonApmecError, RawText("reason")) }

(***************************************************************************)
(* Serializer and error classifier.                                        *)
(***************************************************************************)
\* Serializer(metadata).serialize(data, content_type)
Serialized(data, fmt) == Encode(fmt, data, "serialized")

\* Serializer(metadata).deserialize(data, content_type)['body']: the string
\* is parsed in the session's wire format; anything else is malformed.
Deserialized(data, fmt) ==
    IF data.t = "raw" /\ data.wire = fmt
    THEN Return(data.doc)
    ELSE Raise(Exc("MalformedResponseBody", 0, MsgObj(data), 0))

\* getattr(exceptions, '%sClient' % error_type, None)
ClientExcByType(error_type) ==
    IF error_type \in {"StateInvalid"} THEN error_type ELSE ""

\* exceptions.HTTP_EXCEPTION_MAP.get(status_code)
HttpExceptionMap(status_code) ==
    CASE status_code = 400 -> "BadRequest"
      [] status_code = 401 -> "Unauthorized"
      [] status_code = 403 -> "Forbidden"
      [] status_code = 404 -> "NotFound"
      [] status_code = 409 -> "Conflict"
      [] status_code = 500 -> "InternalServerError"
      [] status_code = 503 -> "ServiceUnavailable"
      [] OTHER -> ""

\* Python truthiness of a dict value or None.
NonEmpty(v) == IsDict(v) /\ DOMAIN v.d # {}

\* Python truthiness of a value: a mapping, a string or None.
Bool(v) == IF IsDict(v) THEN DOMAIN v.d # {} ELSE Truthy(v)

\* A generic error whose message is the body alone.
NotApmecErrorBody(status_code, error_content) ==
    Raise(Exc("ApmecClientException", status_code, MsgObj(error_content), 0))

\* An end of the function that raises nothing.
NotApmecErrorReturns(status_code, error_content) == Return(None)

\* msg = "%s-%s" % (status_code, error_content)
\* raise exceptions.ApmecClientException(status_code=status_code, message=msg)
NotApmecError(status_code, error_content) ==
    Raise(Exc("ApmecClientException", status_code,
              MsgFmt(status_code, error_content), 0))

\* A lookup that asks the status-code table first.
ClientExcStatusFirst(error_type, status_code) ==
    IF HttpExceptionMap(status_code) # "" THEN HttpExceptionMap(status_code)
    ELSE IF ClientExcByType(error_type) # "" THEN ClientExcByType(error_type)
    ELSE "ApmecClientException"

\* client_exc = getattr(exceptions, '%sClient' % error_type, None)
\* if not client_exc: client_exc = exceptions.HTTP_EXCEPTION_MAP.get(status_code)
\* and exceptions.ApmecClientException if there is none
ClientExc(error_type, status_code) ==
    IF ClientExcByType(error_type) # "" THEN ClientExcByType(error_type)
    ELSE IF HttpExceptionMap(status_code) # "" THEN HttpExceptionMap(status_code)
    ELSE "ApmecClientException"

\* try: error_dict['type']; error_dict['message']; if error_dict['detail']
\* raises nothing when error_dict is a mapping with the three keys.
Reads(error_dict) ==
    IsDict(error_dict) /\ {"type", "message", "detail"} \subseteq DOMAIN error_dict.d

\* exception_handler_v10: the result is what the call does, a raise of one
\* exception.
ExceptionHandlerV10(status_code, error_content) ==
    LET error_dict == IF HasKey(error_content, "ApmecError")
                      THEN error_content.d.ApmecError ELSE None
    IN  IF Bool(error_dict)
        THEN
            IF Reads(error_dict)
            THEN
                LET error_type == error_dict.d.type
                    error_message ==
                        IF error_dict.d.detail # ""
                        THEN <<error_dict.d.message, error_dict.d.detail>>
                        ELSE <<error_dict.d.message>>
                    client_exc == ClientExc(error_type, status_code)
                IN  Raise(Exc(client_exc, status_code, MsgLines(error_message), 0))
            ELSE Raise(Exc("ApmecClientException", status_code, MsgObj(error_dict), 0))
        ELSE
            LET message == IF HasKey(error_content, "message")
                           THEN error_content.d.message ELSE ""
            IN  IF message # ""
                THEN Raise(Exc("ApmecClientException", status_code,
                               MsgLines(<<message>>), 0))
                ELSE NotApmecError(status_code, error_content)

(***************************************************************************)
(* Observer state of one operation.                                        *)
(***************************************************************************)
NoRequest == [method |-> "", path |-> "", suffix |-> "", ctype |-> ContentType(""),
              params |-> NoParams]

H0 ==
    [attempts |-> 0,        \* do_request calls made for the operation itself
     sleeps |-> 0,          \* retry sleeps of the operation's own retry loop
     bsleeps |-> 0,         \* retry sleeps inside the metadata bootstrap
     tx |-> 0,              \* transport calls
     txown |-> 0,           \* transport calls for the operation's own path
     answered |-> FALSE,    \* a transport call was answered
     ownFailed |-> FALSE,   \* an own transport call raised ConnectionFailed
     ownStatus |-> 0,       \* status of the latest answer to an own request
     ownRaw |-> None,       \* raw body of that answer
     ownParsed |-> FALSE,   \* the Serializer parsed a body outside the bootstrap
     errSeen |-> FALSE,     \* an own request was answered with an error status
     lastReq |-> NoRequest, \* the latest request sent
     gets |-> 0,            \* self.get calls made by _pagination
     pagetx |-> 0,          \* transport calls for the collection's path
     other |-> FALSE,       \* a transport call for another path was made
     failed |-> FALSE,      \* a transport call raised ConnectionFailed
     pages |-> 0,           \* page answers the transport delivered
     items |-> <<>>,        \* their items, concatenated in order
     nomatch |-> 0,         \* delivered pages without a link for the direction
     last |-> "none",       \* the latest delivered page: "match" if it has a
                            \* link for the direction, else "nokey" if it has
                            \* no links key, else "nomatch"
     advances |-> 0,        \* times the caller advanced the lazy sequence
     unrestored |-> FALSE]  \* an exception left get_attr_metadata or a
                            \* with_params that had set a format keyword

NoOp == [name |-> "none"]

NoGen == [state |-> "none"]

PeerIdle == [k |-> "idle"]

Init ==
    /\ format = "json"
    /\ retries \in 0..MaxRetries
    /\ raise_errors \in BOOLEAN
    /\ EXTED_PLURALS = {}
    /\ stack = <<>>
    /\ flow = Idle
    /\ op = NoOp
    /\ gen = NoGen
    /\ h = H0
    /\ peer = PeerIdle

Config == <<retries, raise_errors>>


(***************************************************************************)
(* The caller.                                                             *)
(***************************************************************************)
Bodies == {None, DocResource}

\* apmec_client.format = parsed_args.request_format
SetFormat(f) ==
    /\ flow = Idle
    /\ f # format
    /\ format' = f
    /\ UNCHANGED <<retries, raise_errors, EXTED_PLURALS, stack, flow, op, gen, h, peer>>

\* An operation is entered with its frame; every operation below is called
\* by an idle caller.
Begin(name, frame, retrieve_all) ==
    /\ stack' = <<frame>>
    /\ flow' = Run
    /\ op' = [name |-> name, body |-> frame.body, params |-> frame.params,
              retrieve_all |-> retrieve_all, format |-> format]
    /\ UNCHANGED <<format, retries, raise_errors, EXTED_PLURALS, gen, h, peer>>

DeleteFrame(body) == FrameRetry("DELETE", "res", body, NoParams)

GetFrame(path, body, params) == FrameRetry("GET", path, body, params)

\* A post that goes through the retry loop like the other methods.
PostFrameRetried(body) == FrameRetry("POST", "res", body, NoParams)

PostFrame(body) == FrameDoRequest("POST", "res", body, NoParams)

\* self.post(path, body)
PostTo(path, body) == FrameDoRequest("POST", path, body, NoParams)

PutFrame(body) == FrameRetry("PUT", "res", body, NoParams)

Delete(body) ==
    /\ flow = Idle
    /\ Begin("delete", DeleteFrame(body), FALSE)

Get(body) ==
    /\ flow = Idle
    /\ Begin("get", GetFrame("res", body, NoParams), FALSE)

Post(body) ==
    /\ flow = Idle
    /\ Begin("post", PostFrame(body), FALSE)

Put(body) ==
    /\ flow = Idle
    /\ Begin("put", PutFrame(body), FALSE)

\* client.show_mea(mea, format=fmt)
ShowMea(fmt) ==
    /\ flow = Idle
    /\ Begin("show_mea",
             FrameWithParamsKw("show_mea", Params({<<"format", fmt>>}, FALSE)), FALSE)

\* The operation is over and its result is with the caller.
Done == stack = <<>> /\ flow.k \in {"return", "raise", "yield"}

\* The caller drops the result and is ready for the next operation.
Forget ==
    /\ Done
    /\ flow' = Idle
    /\ op' = NoOp
    /\ gen' = NoGen
    /\ h' = H0
    /\ UNCHANGED <<format, retries, raise_errors, EXTED_PLURALS, stack, peer>>

(***************************************************************************)
(* retry_request                                                           *)
(***************************************************************************)
\* for i in range(max_attempts): try: return self.do_request(...)
\* and, once the range is exhausted, raise ConnectionFailed(reason=msg)
RetryLoop ==
    /\ At("retry_request", "loop") /\ flow.k = "run"
    /\ IF Top.i < MaxAttempts(retries)
       THEN /\ stack' = Call([Top EXCEPT !.pc = "try"],
                             FrameDoRequest(Top.method, Top.path, Top.body, Top.params))
            /\ flow' = Run
       ELSE /\ stack' = Rest
            /\ flow' = Raise(Exc("ConnectionFailed", 0, SummaryMsg(retries), 0))
    /\ UNCHANGED <<format, retries, raise_errors, EXTED_PLURALS, op, gen, h, peer>>

\* A loop that goes on to the next attempt after one that returned.
RetryReturnGoesOn ==
    /\ At("retry_request", "try") /\ flow.k = "return"
    /\ stack' = Goto([Top EXCEPT !.pc = "loop", !.i = Top.i + 1])
    /\ flow' = Run
    /\ UNCHANGED <<format, retries, raise_errors, EXTED_PLURALS, op, gen, h, peer>>

\* return self.do_request(...): the attempt's result is the call's result.
RetryReturn ==
    /\ At("retry_request", "try") /\ flow.k = "return"
    /\ stack' = Rest
    /\ UNCHANGED <<format, retries, raise_errors, EXTED_PLURALS, flow, op, gen, h, peer>>

\* An except clause that sleeps after every failed attempt.
OnConnectionFailedSleeps(i) == "sleep"

\* What the except clause does with a ConnectionFailed on attempt i.
OnConnectionFailed(i) ==
    IF i < retries THEN "sleep"
    ELSE IF raise_errors THEN "raise"
    ELSE "next"

\* except exceptions.ConnectionFailed; any other exception passes through.
RetryCatch ==
    /\ At("retry_request", "try") /\ flow.k = "raise"
    /\ LET todo == IF IsConnectionFailed(flow.v) THEN OnConnectionFailed(Top.i)
                   ELSE "raise"
       IN  CASE todo = "sleep" ->
                    /\ stack' = Goto([Top EXCEPT !.pc = "sleep"])
                    /\ flow' = Run
              [] todo = "next" ->
                    /\ stack' = Goto([Top EXCEPT !.pc = "loop", !.i = Top.i + 1])
                    /\ flow' = Run
              [] OTHER ->
                    /\ stack' = Rest
                    /\ flow' = flow
    /\ UNCHANGED <<format, retries, raise_errors, EXTED_PLURALS, op, gen, h, peer>>

\* time.sleep(self.retry_interval)
RetrySleep ==
    /\ At("retry_request", "sleep") /\ flow.k = "run"
    /\ stack' = Goto([Top EXCEPT !.pc = "loop", !.i = Top.i + 1])
    /\ h' = IF InBootstrap THEN [h EXCEPT !.bsleeps = Sat(h.bsleeps)]
            ELSE [h EXCEPT !.sleeps = Sat(h.sleeps)]
    /\ UNCHANGED <<format, retries, raise_errors, EXTED_PLURALS, flow, op, gen, peer>>


(***************************************************************************)
(* do_request                                                              *)
(***************************************************************************)
\* action += ".%s" % self.format; if body: body = self.serialize(body)
DoRequestStart ==
    /\ At("do_request", "start") /\ flow.k = "run"
    /\ IF Top.body # None
       THEN stack' = Call([Top EXCEPT !.pc = "serialized", !.suffix = format],
                          FrameSerialize(Top.body))
       ELSE stack' = Goto([Top EXCEPT !.pc = "send", !.suffix = format])
    /\ h' = IF InBootstrap THEN h ELSE [h EXCEPT !.attempts = Sat(h.attempts)]
    /\ UNCHANGED <<format, retries, raise_errors, EXTED_PLURALS, flow, op, gen, peer>>

DoRequestSerialized ==
    /\ At("do_request", "serialized") /\ flow.k = "return"
    /\ stack' = Goto([Top EXCEPT !.pc = "send", !.body = flow.v])
    /\ flow' = Run
    /\ UNCHANGED <<format, retries, raise_errors, EXTED_PLURALS, op, gen, h, peer>>

\* What the transport can answer to the request of frame f.
Answers(f) ==
    {Fail} \cup
    CASE f.path = "ext" -> ExtensionsResponses
      [] f.path = "coll" -> PageResponses(f.suffix, Len(h.items))
      [] OTHER -> ResourceResponses

\* if not replybody: replybody = resp.reason
FaultBody(ans) == IF Truthy(ans.raw) THEN ans.raw ELSE ans.reason

\* resp, replybody = self.httpclient.do_request(action, method, body=body,
\*                                              content_type=self.content_type())
\* and the branch on resp.status_code
DoRequestSend ==
    /\ At("do_request", "send") /\ flow.k = "run"
    /\ \E ans \in Answers(Top) :
        LET n == Sat(h.tx)
            own == ~InBootstrap
            page == Top.path = "coll"
            sent == [h EXCEPT !.tx = n,
                              !.pagetx = IF page THEN SatPage(h.pagetx) ELSE h.pagetx,
                              !.other = h.other \/ ~page,
                              !.failed = h.failed \/ ans = Fail,
                              !.txown = IF own THEN Sat(h.txown) ELSE h.txown,
                              !.lastReq = [method |-> Top.method, path |-> Top.path,
                                           suffix |-> Top.suffix,
                                           ctype |-> ContentType(format),
                                           params |-> Top.params]]
            got == [sent EXCEPT !.answered = TRUE,
                                !.ownStatus = IF own THEN ans.status_code ELSE h.ownStatus,
                                !.ownRaw = IF own THEN ans.raw ELSE h.ownRaw,
                                !.errSeen = h.errSeen \/
                                            (own /\ ~(ans.status_code \in SuccessCodes))]
        IN  IF ans = Fail
            THEN /\ stack' = Rest
                 /\ flow' = Raise(Exc("ConnectionFailed", 0, MsgLines(<<"transport">>), n))
                 /\ h' = [sent EXCEPT !.ownFailed = h.ownFailed \/ own]
            ELSE /\ stack' =
                      IF IsSuccess(ans.status_code)
                      THEN Call([Top EXCEPT !.pc = "deser", !.status_code = ans.status_code],
                                FrameDeserialize(ans.raw, ans.status_code))
                      ELSE Call([Top EXCEPT !.pc = "fault", !.status_code = ans.status_code],
                                FrameHandleFault(ans.status_code, FaultBody(ans)))
                 /\ flow' = Run
                 /\ h' = got
    /\ UNCHANGED <<format, retries, raise_errors, EXTED_PLURALS, op, gen, peer>>

\* return self.deserialize(replybody, status_code); after
\* _handle_fault_response the function would end without a value.
DoRequestReturn ==
    /\ stack # <<>> /\ Top.fn = "do_request" /\ Top.pc \in {"deser", "fault"}
    /\ flow.k = "return"
    /\ stack' = Rest
    /\ flow' = IF Top.pc = "deser" THEN flow ELSE Return(None)
    /\ UNCHANGED <<format, retries, raise_errors, EXTED_PLURALS, op, gen, h, peer>>

(***************************************************************************)
(* serialize, deserialize                                                  *)
(***************************************************************************)
\* serializer.Serializer(self.get_attr_metadata())
SerializeStart ==
    /\ At("serialize", "start") /\ flow.k = "run"
    /\ stack' = Call([Top EXCEPT !.pc = "meta"], FrameGetAttrMetadata)
    /\ UNCHANGED <<format, retries, raise_errors, EXTED_PLURALS, flow, op, gen, h, peer>>

\* .serialize(data, self.content_type())
SerializeDone ==
    /\ At("serialize", "meta") /\ flow.k = "return"
    /\ stack' = Rest
    /\ flow' = Return(Serialized(Top.data, format))
    /\ UNCHANGED <<format, retries, raise_errors, EXTED_PLURALS, op, gen, h, peer>>

\* A deserialize without the 204 shortcut.
PassThroughNever(status_code) == FALSE

\* Whether deserialize hands the data back as it is.
PassThrough(status_code) == status_code = 204

\* if status_code == 204: return data
\* serializer.Serializer(self.get_attr_metadata())
DeserializeStart ==
    /\ At("deserialize", "start") /\ flow.k = "run"
    /\ IF PassThrough(Top.status_code)
       THEN /\ stack' = Rest
            /\ flow' = Return(Top.data)
       ELSE /\ stack' = Call([Top EXCEPT !.pc = "meta"], FrameGetAttrMetadata)
            /\ flow' = Run
    /\ UNCHANGED <<format, retries, raise_errors, EXTED_PLURALS, op, gen, h, peer>>

\* .deserialize(data, self.content_type())['body']
DeserializeDone ==
    /\ At("deserialize", "meta") /\ flow.k = "return"
    /\ stack' = Rest
    /\ flow' = Deserialized(Top.data, format)
    /\ h' = IF InBootstrap THEN h ELSE [h EXCEPT !.ownParsed = TRUE]
    /\ UNCHANGED <<format, retries, raise_errors, EXTED_PLURALS, op, gen, peer>>


(***************************************************************************)
(* get_attr_metadata and APIParamsCall                                     *)
(***************************************************************************)
\* constants.PLURALS (its keys)
PLURALS == {"extensions"}

\* A get_attr_metadata that fetches the extensions in every format.
NeedsNoMetadataNever(fmt) == FALSE

\* if self.format == 'json': return {}
NeedsNoMetadata(fmt) == fmt = "json"

\* A bootstrap that leaves the format as it is.
MetadataFormatKept(fmt) == fmt

\* self.format = 'json'
MetadataFormat(fmt) == "json"

\* if self.format == 'json': return {}
\* old_request_format = self.format; self.format = 'json'
\* exts = self.list_extensions()...
GetAttrMetadataStart ==
    /\ At("get_attr_metadata", "start") /\ flow.k = "run"
    /\ IF NeedsNoMetadata(format)
       THEN /\ stack' = Rest
            /\ flow' = Return(EmptyDict)
            /\ format' = format
       ELSE /\ stack' = Call([Top EXCEPT !.pc = "exts", !.old_request_format = format],
                             FrameWithParams("list_extensions"))
            /\ flow' = Run
            /\ format' = MetadataFormat(format)
    /\ UNCHANGED <<retries, raise_errors, EXTED_PLURALS, op, gen, h, peer>>

\* ...['extensions']; self.format = old_request_format
\* self.EXTED_PLURALS.update(constants.PLURALS); return {...}
GetAttrMetadataExts ==
    /\ At("get_attr_metadata", "exts") /\ flow.k = "return"
    /\ stack' = Rest
    /\ IF HasKey(flow.v, "extensions")
       THEN /\ format' = Top.old_request_format
            /\ EXTED_PLURALS' = EXTED_PLURALS \cup PLURALS
            /\ flow' = Return(Dict([plurals |-> EXTED_PLURALS \cup PLURALS]))
       ELSE /\ format' = format
            /\ EXTED_PLURALS' = EXTED_PLURALS
            /\ flow' = Raise(Exc(IF IsDict(flow.v) THEN "KeyError" ELSE "TypeError",
                                 0, MsgLines(<<"extensions">>), 0))
    /\ h' = [h EXCEPT !.unrestored = h.unrestored \/ ~HasKey(flow.v, "extensions")]
    /\ UNCHANGED <<retries, raise_errors, op, gen, peer>>

\* The body of a function wrapped by APIParamsCall.
\* list_extensions: return self.get(self.extensions_path, params=_params)
\* show_mea: return self.get(self.mea_path % mea, params=_params)
FunctionFrame(function, kwargs) ==
    CASE function = "list_extensions" -> GetFrame("ext", None, kwargs)
      [] function = "show_mea" -> GetFrame("res", None, kwargs)

\* The value of the format keyword, "" when it is not given.
KwFormat(kwargs) ==
    IF \E kv \in kwargs.q : kv[1] = "format"
    THEN (CHOOSE kv \in kwargs.q : kv[1] = "format")[2]
    ELSE ""

\* with_params: _format = instance.format
\* if 'format' in kwargs: instance.format = kwargs['format']
\* ret = self.function(instance, *args, **kwargs)
WithParamsStart ==
    /\ At("with_params", "start") /\ flow.k = "run"
    /\ stack' = Call([Top EXCEPT !.pc = "called", !._format = format],
                     FunctionFrame(Top.function, Top.kwargs))
    /\ format' = IF KwFormat(Top.kwargs) # "" THEN KwFormat(Top.kwargs) ELSE format
    /\ UNCHANGED <<retries, raise_errors, EXTED_PLURALS, flow, op, gen, h, peer>>

\* A with_params that returns without restoring the format.
WithParamsReturnKeeps ==
    /\ At("with_params", "called") /\ flow.k = "return"
    /\ stack' = Rest
    /\ UNCHANGED <<format, retries, raise_errors, EXTED_PLURALS, flow, op, gen, h,
                   peer>>

\* instance.format = _format; return ret
WithParamsReturn ==
    /\ At("with_params", "called") /\ flow.k = "return"
    /\ stack' = Rest
    /\ format' = Top._format
    /\ UNCHANGED <<retries, raise_errors, EXTED_PLURALS, flow, op, gen, h, peer>>

(***************************************************************************)
(* _handle_fault_response                                                  *)
(***************************************************************************)
\* try: des_error_body = self.deserialize(response_body, status_code)
HandleFaultStart ==
    /\ At("_handle_fault_response", "start") /\ flow.k = "run"
    /\ stack' = Call([Top EXCEPT !.pc = "try"],
                     FrameDeserialize(Top.response_body, Top.status_code))
    /\ UNCHANGED <<format, retries, raise_errors, EXTED_PLURALS, flow, op, gen, h, peer>>

\* except Exception: des_error_body = {'message': response_body}
\* exception_handler_v10(status_code, des_error_body)
HandleFaultClassify ==
    /\ At("_handle_fault_response", "try") /\ flow.k \in {"return", "raise"}
    /\ LET des_error_body ==
               IF flow.k = "return" THEN flow.v
               ELSE Dict([message |-> Top.response_body.text])
       IN  flow' = ExceptionHandlerV10(Top.status_code, des_error_body)
    /\ stack' = Rest
    /\ UNCHANGED <<format, retries, raise_errors, EXTED_PLURALS, op, gen, h, peer>>

(***************************************************************************)
(* list and _pagination                                                    *)
(***************************************************************************)
FrameList(retrieve_all, params) ==
    [fn |-> "list", pc |-> "start", retrieve_all |-> retrieve_all,
     params |-> params, body |-> None, res |-> <<>>]

FramePagination(params) ==
    [fn |-> "_pagination", pc |-> "start", params |-> params, linkrel |-> "",
     next |-> TRUE, res |-> None]

Reverse == Params({<<"page_reverse", "True">>}, FALSE)

List(retrieve_all, params) ==
    /\ flow = Idle
    /\ Begin("list", FrameList(retrieve_all, params), retrieve_all)

\* A list that runs the generator up to its first page before it returns.
ListStartEager ==
    /\ At("list", "start") /\ flow.k = "run"
    /\ IF Top.retrieve_all
       THEN /\ stack' = Goto([Top EXCEPT !.pc = "iter"])
            /\ gen' = [state |-> "created", frame |-> FramePagination(Top.params)]
       ELSE /\ stack' = <<FramePagination(Top.params)>>
            /\ gen' = [state |-> "running"]
    /\ flow' = Run
    /\ UNCHANGED <<format, retries, raise_errors, EXTED_PLURALS, op, h, peer>>

\* if retrieve_all: res = []; for r in self._pagination(...)
\* else: return self._pagination(collection, path, **params)
\* Calling a generator function makes the generator and runs none of it.
ListStart ==
    /\ At("list", "start") /\ flow.k = "run"
    /\ gen' = [state |-> "created", frame |-> FramePagination(Top.params)]
    /\ IF Top.retrieve_all
       THEN /\ stack' = Goto([Top EXCEPT !.pc = "iter"])
            /\ flow' = Run
       ELSE /\ stack' = Rest
            /\ flow' = Return([t |-> "generator"])
    /\ UNCHANGED <<format, retries, raise_errors, EXTED_PLURALS, op, h, peer>>

\* the for statement asks the generator for its next page
ListNext ==
    /\ At("list", "iter") /\ flow.k = "run"
    /\ gen.state \in {"created", "suspended"}
    /\ stack' = Call([Top EXCEPT !.pc = "wait"], gen.frame)
    /\ gen' = [state |-> "running"]
    /\ UNCHANGED <<format, retries, raise_errors, EXTED_PLURALS, flow, op, h, peer>>

\* A list that keeps only the latest page.
ExtendedLatest(res, page) == page

\* The list after res.extend(page).
Extended(res, page) == res \o page

\* res.extend(r[collection])
ListExtend ==
    /\ At("list", "wait") /\ flow.k = "yield"
    /\ IF HasKey(flow.v, "items")
       THEN /\ stack' = Goto([Top EXCEPT !.pc = "iter",
                                         !.res = Extended(Top.res, flow.v.d.items)])
            /\ flow' = Run
       ELSE /\ stack' = Rest
            /\ flow' = Raise(Exc(IF IsDict(flow.v) THEN "KeyError" ELSE "TypeError",
                                 0, MsgLines(<<"collection">>), 0))
    /\ UNCHANGED <<format, retries, raise_errors, EXTED_PLURALS, op, gen, h, peer>>

\* return {collection: res}
ListReturn ==
    /\ At("list", "wait") /\ flow.k = "return"
    /\ stack' = Rest
    /\ flow' = Return(Dict([items |-> Top.res]))
    /\ UNCHANGED <<format, retries, raise_errors, EXTED_PLURALS, op, gen, h, peer>>

\* The caller of list(..., retrieve_all=False) advances the sequence.
CallerNext ==
    /\ stack = <<>> /\ flow.k \in {"return", "yield"}
    /\ gen.state \in {"created", "suspended"}
    /\ stack' = <<gen.frame>>
    /\ gen' = [state |-> "running"]
    /\ flow' = Run
    /\ h' = [h EXCEPT !.advances = SatPage(h.advances)]
    /\ UNCHANGED <<format, retries, raise_errors, EXTED_PLURALS, op, peer>>

\* A direction that ignores page_reverse.
LinkRelNext(params) == "next"

\* if params.get('page_reverse', False): linkrel = 'previous' else 'next'
LinkRel(params) ==
    IF \E kv \in params.q : kv[1] = "page_reverse" THEN "previous" ELSE "next"

\* linkrel = ...; next = True
PaginationStart ==
    /\ At("_pagination", "start") /\ flow.k = "run"
    /\ stack' = Goto([Top EXCEPT !.pc = "while", !.linkrel = LinkRel(Top.params),
                                 !.next = TRUE])
    /\ UNCHANGED <<format, retries, raise_errors, EXTED_PLURALS, flow, op, gen, h, peer>>

\* What the observer holds when _pagination asks for a page: the history of
\* the pages so far, and a fresh record for the request to come.
NextGet ==
    [H0 EXCEPT !.gets = SatPage(h.gets), !.pagetx = h.pagetx,
               !.other = h.other, !.failed = h.failed, !.pages = h.pages,
               !.items = h.items, !.nomatch = h.nomatch, !.last = h.last,
               !.advances = h.advances, !.unrestored = h.unrestored]

\* while next: res = self.get(path, params=params)
PaginationWhile ==
    /\ At("_pagination", "while") /\ flow.k = "run"
    /\ IF Top.next
       THEN /\ stack' = Call([Top EXCEPT !.pc = "got"],
                             GetFrame("coll", None, Top.params))
            /\ flow' = Run
            /\ gen' = gen
            /\ h' = NextGet
       ELSE /\ stack' = Rest
            /\ flow' = Return(None)
            /\ gen' = [state |-> "finished"]
            /\ h' = h
    /\ UNCHANGED <<format, retries, raise_errors, EXTED_PLURALS, op, peer>>

\* The direction the operation was started with, as its caller sees it.
Direction ==
    IF <<"page_reverse", "True">> \in op.params.q THEN "previous" ELSE "next"

\* Whether a page carries a link for direction dir.
HasRel(page, dir) ==
    /\ HasKey(page, "links")
    /\ \E n \in 1..Len(page.d.links) : page.d.links[n].rel = dir

\* yield res
PaginationYield ==
    /\ At("_pagination", "got") /\ flow.k = "return"
    /\ stack' = Rest
    /\ gen' = [state |-> "suspended",
               frame |-> [Top EXCEPT !.pc = "resume", !.res = flow.v]]
    /\ flow' = [k |-> "yield", v |-> flow.v]
    /\ h' = [h EXCEPT !.pages = SatPage(h.pages),
                      !.items = IF HasKey(flow.v, "items")
                                THEN h.items \o flow.v.d.items ELSE h.items,
                      !.nomatch = IF HasRel(flow.v, Direction) THEN h.nomatch
                                  ELSE SatPage(h.nomatch),
                      !.last = IF HasRel(flow.v, Direction) THEN "match"
                               ELSE IF HasKey(flow.v, "links") THEN "nomatch"
                               ELSE "nokey"]
    /\ UNCHANGED <<format, retries, raise_errors, EXTED_PLURALS, op, peer>>

\* A scan that takes the links whatever their rel is.
MatchingAnyRel(links, linkrel) == links

\* The links of a page whose rel is linkrel, in order.
Matching(links, linkrel) ==
    SelectSeq(links, LAMBDA link : link.rel = linkrel)

\* urlparse.parse_qs(urlparse.urlparse(link['href']).query)
ParseQs(href) == Params(href, TRUE)

\* next = False
\* try: for link in res['%s_links' % collection]:
\*          if link['rel'] == linkrel: params = ...; next = True; break
\* except KeyError: break
PaginationScan ==
    /\ At("_pagination", "resume") /\ flow.k = "run"
    /\ IF ~IsDict(Top.res)
       THEN /\ stack' = Rest
            /\ flow' = Raise(Exc("TypeError", 0, MsgLines(<<"links">>), 0))
            /\ gen' = [state |-> "finished"]
       ELSE IF ~HasKey(Top.res, "links")
       THEN /\ stack' = Rest
            /\ flow' = Return(None)
            /\ gen' = [state |-> "finished"]
       ELSE LET found == Matching(Top.res.d.links, Top.linkrel)
            IN  /\ stack' = Goto([Top EXCEPT
                                    !.pc = "while",
                                    !.next = found # <<>>,
                                    !.params = IF found # <<>>
                                               THEN ParseQs(found[1].href)
                                               ELSE Top.params])
                /\ flow' = Run
                /\ gen' = gen
    /\ UNCHANGED <<format, retries, raise_errors, EXTED_PLURALS, op, h, peer>>

(***************************************************************************)
(* Exceptions pass through every frame that has no handler for them.       *)
(***************************************************************************)
Handles(f) ==
    \/ f.fn = "retry_request" /\ f.pc = "try"
    \/ f.fn = "_handle_fault_response" /\ f.pc = "try"

\* The innermost frame that handles the exception (0: none, the exception
\* reaches the caller).
Handler ==
    LET hs == {n \in 1..Len(stack) : Handles(stack[n])}
    IN  IF hs = {} THEN 0 ELSE CHOOSE n \in hs : \A m \in hs : m <= n

\* Frame f has changed the format and restores it when it returns.
Overrides(f) ==
    \/ f.fn = "get_attr_metadata" /\ f.pc = "exts"
    \/ f.fn = "with_params" /\ f.pc = "called" /\ KwFormat(f.kwargs) # ""

Unwind ==
    /\ stack # <<>> /\ flow.k = "raise"
    /\ ~Handles(Top)
    /\ stack' = SubSeq(stack, 1, Handler)
    /\ gen' = IF \E n \in (Handler + 1)..Len(stack) : stack[n].fn = "_pagination"
              THEN [state |-> "finished"] ELSE gen
    /\ h' = [h EXCEPT !.unrestored =
                @ \/ \E n \in (Handler + 1)..Len(stack) : Overrides(stack[n])]
    /\ UNCHANGED <<format, retries, raise_errors, EXTED_PLURALS, flow, op, peer>>

Next ==
    \/ \E f \in {"json", "xml"} : SetFormat(f)
    \/ Delete(None)
    \/ Get(None)
    \/ \E b \in Bodies : Post(b)
    \/ \E b \in Bodies : Put(b)
    \/ \E f \in {"json", "xml"} : ShowMea(f)
    \/ \E ra \in BOOLEAN, ps \in {NoParams, Reverse} : List(ra, ps)
    \/ Forget
    \/ CallerNext
    \/ ListStart
    \/ ListNext
    \/ ListExtend
    \/ ListReturn
    \/ PaginationStart
    \/ PaginationWhile
    \/ PaginationYield
    \/ PaginationScan
    \/ RetryLoop
    \/ RetryReturn
    \/ RetryCatch
    \/ RetrySleep
    \/ DoRequestStart
    \/ DoRequestSerialized
    \/ DoRequestSend
    \/ DoRequestReturn
    \/ SerializeStart
    \/ SerializeDone
    \/ DeserializeStart
    \/ DeserializeDone
    \/ GetAttrMetadataStart
    \/ GetAttrMetadataExts
    \/ WithParamsStart
    \/ WithParamsReturn
    \/ HandleFaultStart
    \/ HandleFaultClassify
    \/ Unwind

Spec == Init /\ [][Next]_vars

(***************************************************************************)
(* Complete listings in json format without retries.  The interpreter      *)
(* keeps running the program, so a step that can be taken is taken.        *)
(***************************************************************************)
PagingInit == Init /\ retries = 0

PagingNext ==
    \/ \E ps \in {NoParams, Reverse} : List(TRUE, ps)
    \/ Forget
    \/ ListStart
    \/ ListNext
    \/ ListExtend
    \/ ListReturn
    \/ PaginationStart
    \/ PaginationWhile
    \/ PaginationYield
    \/ PaginationScan
    \/ RetryLoop
    \/ RetryReturn
    \/ RetryCatch
    \/ DoRequestStart
    \/ DoRequestSend
    \/ DoRequestReturn
    \/ DeserializeStart
    \/ DeserializeDone
    \/ GetAttrMetadataStart
    \/ HandleFaultStart
    \/ HandleFaultClassify
    \/ Unwind

PagingSpec == PagingInit /\ [][PagingNext]_vars /\ WF_vars(PagingNext)


(***************************************************************************)
(* Properties.                                                             *)
(***************************************************************************)
\* Success status codes of the wire contract: 200, 201, 202, 204.
WireSuccess == {200, 201, 202, 204}

Requests == {"get", "put", "delete", "post"}

Retried == {"get", "put", "delete"}

ConnectionFailedRaised == flow.k = "raise" /\ flow.v.cls = "ConnectionFailed"

\* C1: when every transport call of a get, put or delete raises
\* ConnectionFailed, the retry loop has called do_request exactly retries + 1
\* times when the error reaches the caller; the error is a ConnectionFailed
\* and, with raise_errors, it is the one the last transport call raised; in
\* json format (no metadata bootstrap) the transport was called exactly
\* retries + 1 times.
C1_RetriesPlusOneAttempts ==
    (Done /\ op.name \in Retried /\ ~h.answered) =>
        /\ h.attempts = retries + 1
        /\ ConnectionFailedRaised
        /\ raise_errors => flow.v.id = h.tx
        /\ op.format = "json" => (h.tx = retries + 1 /\ h.txown = retries + 1)

C1_Witness ==
    /\ Done /\ op.name = "put" /\ ~h.answered
    /\ retries = 1 /\ raise_errors /\ h.attempts = 2 /\ h.sleeps = 1
    /\ ConnectionFailedRaised /\ flow.v.id = 2

\* C2: a post calls do_request once and never sleeps in a retry loop of its
\* own; when its transport call raises ConnectionFailed, that was the only
\* POST sent and the last transport call made, and the same exception reaches
\* the caller; in json format it was the only transport call and nothing slept.
C2_PostNotRetried ==
    (Done /\ op.name = "post" /\ (h.ownFailed \/ ConnectionFailedRaised)) =>
        /\ h.attempts = 1
        /\ h.sleeps = 0
        /\ h.txown <= 1
        /\ ConnectionFailedRaised
        /\ h.ownFailed => (h.txown = 1 /\ flow.v.id = h.tx)
        /\ op.format = "json" => (h.tx = 1 /\ h.bsleeps = 0)

C2_Witness ==
    /\ Done /\ op.name = "post" /\ retries = 1 /\ h.ownFailed
    /\ h.attempts = 1 /\ h.tx = 1 /\ h.sleeps = 0
    /\ ConnectionFailedRaised /\ flow.v.id = 1

\* C3: once a request of a get, put or delete has been answered with an
\* error status, the retry loop makes no further attempt, sends nothing more
\* for the operation and does not sleep, and the caller gets an error that
\* carries that status and is no ConnectionFailed.
C3_ErrorEndsState ==
    (Done /\ op.name \in Retried /\ h.errSeen) =>
        /\ flow.k = "raise"
        /\ flow.v.cls # "ConnectionFailed"
        /\ flow.v.status_code = h.ownStatus
        /\ ~(h.ownStatus \in WireSuccess)

C3_ErrorEndsStep ==
    (op.name \in Retried /\ h.errSeen /\ flow'.k # "idle") =>
        /\ h'.attempts = h.attempts
        /\ h'.txown = h.txown
        /\ h'.sleeps = h.sleeps

C3_OnlyConnectionFailedRetried == [][C3_ErrorEndsStep]_vars /\ []C3_ErrorEndsState

C3_Witness ==
    /\ Done /\ op.name = "get" /\ retries = 1 /\ h.errSeen
    /\ h.attempts = 2 /\ h.sleeps = 1 /\ h.ownStatus = 404
    /\ flow.k = "raise" /\ flow.v.cls = "NotFound"

ExhaustedSilently ==
    Done /\ op.name \in Retried /\ ~raise_errors /\ ~h.answered

\* C4 as stated: with raise_errors false and every attempt failing, the call
\* raises a ConnectionFailed whose message names retries + 1 attempts, for
\* every retries >= 0.
C4_Original ==
    ExhaustedSilently =>
        (ConnectionFailedRaised /\ flow.v.msg = MsgAttempts(retries + 1))

\* C4 amended: it raises a new ConnectionFailed (none of the transport's);
\* for retries >= 1 the message names retries + 1 attempts, for retries = 0
\* it is "Failed to connect Apmec server" and names no count.
C4_SummaryRaised ==
    ExhaustedSilently =>
        /\ ConnectionFailedRaised
        /\ flow.v.id = 0
        /\ retries >= 1 => flow.v.msg = MsgAttempts(retries + 1)
        /\ retries = 0 => flow.v.msg = MsgLines(<<"Failed to connect Apmec server">>)

C4_Witness ==
    /\ ExhaustedSilently /\ retries = 0 /\ h.attempts = 1
    /\ ConnectionFailedRaised /\ flow.v.msg.t = "lines"

OwnError == h.ownStatus # 0 /\ ~(h.ownStatus \in WireSuccess)

\* C5: whenever a request was answered with a status outside
\* {200, 201, 202, 204}, whatever the raw body, do_request does not return:
\* the operation ends with an exception that carries that status.
C5_ErrorStatusRaises ==
    (Done /\ op.name \in Requests /\ OwnError) =>
        /\ flow.k = "raise"
        /\ flow.v.status_code = h.ownStatus

C5_Witness ==
    /\ Done /\ op.name = "post" /\ h.ownStatus = 404 /\ h.ownRaw = RawEmpty
    /\ flow.k = "raise" /\ flow.v.msg = MsgLines(<<"reason">>)

\* C6: when the request was answered with a success status, no error made
\* from that answer is raised; for 204 the caller gets the raw body itself
\* and the Serializer has parsed nothing, even if the body is no JSON or XML;
\* for 200, 201 and 202 a returned value is the body the Serializer parsed,
\* and in json format a JSON body is always returned.
C6_SuccessReturns ==
    (Done /\ op.name \in Requests /\ h.ownStatus \in WireSuccess) =>
        /\ ~(flow.k = "raise" /\ flow.v.status_code = h.ownStatus)
        /\ h.ownStatus = 204 => (flow = Return(h.ownRaw) /\ ~h.ownParsed)
        /\ (h.ownStatus # 204 /\ flow.k = "return") =>
               (flow.v = h.ownRaw.doc /\ h.ownParsed)
        /\ (h.ownStatus # 204 /\ op.format = "json" /\ h.ownRaw.wire = "json") =>
               flow.k = "return"

C6_Witness ==
    /\ Done /\ op.name = "post" /\ h.ownStatus = 204
    /\ h.ownRaw = RawText("internal error")
    /\ flow = Return(RawText("internal error"))

(***************************************************************************)
(* Two callers on one instance.  The second caller runs do_request for a   *)
(* GET without a body while the first runs one operation; do_request reads *)
(* self.format for the path suffix and, later, for the content type.       *)
(***************************************************************************)
\* The format the session was set to: the one the client had when the first
\* caller's operation began.
Session == IF op.name = "none" THEN format ELSE op.format

\* The first caller is inside the metadata bootstrap or inside a with_params
\* that has set a format keyword.
Inside == \E n \in 1..Len(stack) : Overrides(stack[n])

\* action += ".%s" % self.format
PeerDoRequestStart ==
    /\ peer.k = "idle"
    /\ peer' = [k |-> "started", suffix |-> format, ctype |-> ContentType(""),
                session |-> Session, inside |-> Inside,
                unrestored |-> h.unrestored]
    /\ UNCHANGED <<format, retries, raise_errors, EXTED_PLURALS, stack, flow, op,
                   gen, h>>

\* self.httpclient.do_request(action, method, body=body,
\*                            content_type=self.content_type())
PeerDoRequestSend ==
    /\ peer.k = "started"
    /\ peer' = [peer EXCEPT !.k = "sent", !.ctype = ContentType(format),
                            !.inside = @ \/ Inside,
                            !.unrestored = @ \/ h.unrestored]
    /\ UNCHANGED <<format, retries, raise_errors, EXTED_PLURALS, stack, flow, op,
                   gen, h>>

\* The second caller's request is over (it was answered with 204).
PeerDoRequestReturn ==
    /\ peer.k = "sent"
    /\ peer' = PeerIdle
    /\ UNCHANGED <<format, retries, raise_errors, EXTED_PLURALS, stack, flow, op,
                   gen, h>>

\* The client as it is after construction and the choice of its format.
SharedInit ==
    /\ format \in {"json", "xml"}
    /\ retries = 0
    /\ raise_errors = TRUE
    /\ EXTED_PLURALS = {}
    /\ stack = <<>>
    /\ flow = Idle
    /\ op = NoOp
    /\ gen = NoGen
    /\ h = H0
    /\ peer = PeerIdle

SharedNext ==
    \/ Get(None)
    \/ Put(DocResource)
    \/ \E f \in {"json", "xml"} : ShowMea(f)
    \/ PeerDoRequestStart
    \/ PeerDoRequestSend
    \/ PeerDoRequestReturn
    \/ RetryLoop
    \/ RetryReturn
    \/ RetryCatch
    \/ DoRequestStart
    \/ DoRequestSerialized
    \/ DoRequestSend
    \/ DoRequestReturn
    \/ SerializeStart
    \/ SerializeDone
    \/ DeserializeStart
    \/ DeserializeDone
    \/ GetAttrMetadataStart
    \/ GetAttrMetadataExts
    \/ WithParamsStart
    \/ WithParamsReturn
    \/ HandleFaultStart
    \/ HandleFaultClassify
    \/ Unwind

SharedSpec == SharedInit /\ [][SharedNext]_vars

\* The second caller's request went out in another format than the session's.
PeerTransient ==
    /\ peer.k = "sent"
    /\ peer.suffix # peer.session \/ peer.ctype # ContentType(peer.session)

\* C18: the second caller's request carries a format other than the
\* session's only if the first caller was inside the metadata bootstrap or a
\* format override when the second caller read self.format, or had left one
\* by an exception; used by one caller at a time the request carries the
\* session's format.
C18_TransientOnlyInside ==
    PeerTransient => (peer.inside \/ peer.unrestored)

\* The interleaving of C18: the session is in xml, the first caller is in the
\* metadata bootstrap, and the second caller's request goes out with the
\* suffix and the content type of json.
C18_Witness ==
    /\ peer.k = "sent" /\ peer.session = "xml" /\ peer.suffix = "json"
    /\ peer.ctype = ContentType("json") /\ peer.inside /\ ~peer.unrestored
    /\ InBootstrap

(***************************************************************************)
(* Client instances.                                                       *)
(***************************************************************************)
\* self.EXTED_PLURALS as another instance reads it: no instance assigns the
\* attribute, so every instance reads the one dict of the class.
OtherInstancePlurals == EXTED_PLURALS

\* C19: whatever is done with this instance, the plural table another
\* instance sees stays as it was when both were made.
C19_NothingShared == OtherInstancePlurals = {}

(***************************************************************************)
(* CreateMEAD.args2body, followed by the creation when it returns a body.  *)
(***************************************************************************)
\* --mead-file ("" when it is not given)
MeadFiles == {"", "mead-file"}

\* What the file holds: nothing, a comment, an empty mapping, text that is
\* no YAML, a descriptor.
FileContents == {"", "# comment", "{}", "a: [", "tosca: 1"}

Descriptions == {"", "d"}

\* yaml.load(mead, Loader=yaml.SafeLoader)
YamlLoad(content) ==
    CASE content = "a: [" -> Raise(Exc("YAMLError", 0, MsgLines(<<"a: [">>), 0))
      [] content \in {"", "# comment"} -> Return(None)
      [] content = "{}" -> Return(EmptyDict)
      [] OTHER -> Return(Dict([tosca |-> "1"]))

InvalidInput(msg) == Raise(Exc("InvalidInput", 0, msg, 0))

\* An args2body that takes every document for a descriptor.
EmptyNever(mead) == FALSE

\* if not mead
Empty(mead) == ~Bool(mead)

FrameArgs2Body(parsed_args) ==
    [fn |-> "args2body", pc |-> "start", parsed_args |-> parsed_args]

\* body = {self.resource: {'attributes': {'mead': mead}, ...}}
MeadBody(parsed_args, mead) ==
    Dict([mead |-> Dict([attributes |-> Dict([mead |-> mead]),
                         name |-> "my_name",
                         description |-> parsed_args.description])])

Args2Body ==
    /\ At("args2body", "start") /\ flow.k = "run"
    /\ stack' = Rest
    /\ LET a == Top.parsed_args
           loaded == YamlLoad(a.content)
       IN  flow' =
               IF a.mead_file = ""
               THEN InvalidInput(MsgLines(<<"Invalid input for mead file">>))
               ELSE IF loaded.k = "raise"
               THEN InvalidInput(MsgObj(loaded.v))
               ELSE IF Empty(loaded.v)
               THEN InvalidInput(MsgLines(<<"mead file is empty">>))
               ELSE Return(MeadBody(a, loaded.v))
    /\ UNCHANGED <<format, retries, raise_errors, EXTED_PLURALS, op, gen, h, peer>>

\* A create_mead that keeps the service_types the caller supplies.
WithServiceTypesKept(body) ==
    IF "service_types" \in DOMAIN body.d.mead.d THEN body
    ELSE SetKey(body, "mead",
                SetKey(body.d.mead, "service_types", <<[service_type |-> "mead"]>>))

\* body[self._MEAD]['service_types'] = [{'service_type': 'mead'}]
WithServiceTypes(body) ==
    SetKey(body, "mead",
           SetKey(body.d.mead, "service_types", <<[service_type |-> "mead"]>>))

FrameCreateMead(body) == [fn |-> "create_mead", pc |-> "start", body |-> body]

\* The command creates the resource with the body args2body returned.
RunCreateMead ==
    /\ stack = <<>> /\ flow.k = "return"
    /\ op.name = "args2body" /\ ~op.created
    /\ stack' = <<FrameCreateMead(flow.v)>>
    /\ flow' = Run
    /\ op' = [op EXCEPT !.created = TRUE, !.body = flow.v]
    /\ UNCHANGED <<format, retries, raise_errors, EXTED_PLURALS, gen, h, peer>>

\* create_mead: body[self._MEAD]['service_types'] = [...]
\* return self.post(self.meads_path, body)
CreateMead ==
    /\ At("create_mead", "start") /\ flow.k = "run"
    /\ stack' = Goto(PostTo("meads", WithServiceTypes(Top.body)))
    /\ UNCHANGED <<format, retries, raise_errors, EXTED_PLURALS, flow, op, gen, h, peer>>

\* Envelopes a caller of create_mead can pass, with and without
\* service_types of its own.
MeadEnvelopes ==
    { Dict([mead |-> Dict([name |-> "my_name"])]),
      Dict([mead |-> Dict([name |-> "my_name",
                           service_types |-> <<[service_type |-> "other"]>>])]),
      Dict([mead |-> Dict([name |-> "my_name", attributes |-> EmptyDict,
                           service_types |-> <<>>])]) }

MeadInit ==
    /\ format = "json"
    /\ retries = 0
    /\ raise_errors = TRUE
    /\ EXTED_PLURALS = {}
    /\ \/ \E f \in MeadFiles, c \in FileContents, d \in Descriptions :
             LET a == [mead_file |-> f, content |-> c, description |-> d]
             IN  /\ stack = <<FrameArgs2Body(a)>>
                 /\ op = [name |-> "args2body", parsed_args |-> a, created |-> FALSE,
                          body |-> None]
       \/ \E e \in MeadEnvelopes :
             /\ stack = <<FrameCreateMead(e)>>
             /\ op = [name |-> "create_mead", created |-> TRUE, body |-> e]
    /\ flow = Run
    /\ gen = NoGen
    /\ h = H0
    /\ peer = PeerIdle

MeadNext ==
    \/ Args2Body
    \/ RunCreateMead
    \/ CreateMead
    \/ DoRequestStart
    \/ DoRequestSerialized
    \/ DoRequestSend
    \/ DoRequestReturn
    \/ SerializeStart
    \/ SerializeDone
    \/ DeserializeStart
    \/ DeserializeDone
    \/ GetAttrMetadataStart
    \/ HandleFaultStart
    \/ HandleFaultClassify
    \/ Unwind

MeadSpec == MeadInit /\ [][MeadNext]_vars

\* The descriptor file is not given, is empty, or is no YAML.
BadMeadFile ==
    \/ op.parsed_args.mead_file = ""
    \/ op.parsed_args.content \in {"", "a: ["}

\* C20: when --mead-file is not given, or the file is empty or no YAML,
\* args2body raises InvalidInput, and no transport call is made before,
\* during or after it.
C20_BadFileRejected ==
    (op.name = "args2body" /\ BadMeadFile) =>
        /\ h.tx = 0 /\ ~op.created
        /\ \/ At("args2body", "start")
           \/ Done /\ flow.k = "raise" /\ flow.v.cls = "InvalidInput"

C20_Witness ==
    /\ Done /\ op.name = "args2body" /\ op.parsed_args.mead_file = "mead-file"
    /\ op.parsed_args.content = "" /\ h.tx = 0
    /\ flow = InvalidInput(MsgLines(<<"mead file is empty">>))

(***************************************************************************)
(* exception_handler_v10 as a function of its arguments.                   *)
(***************************************************************************)
ApmecErrorDoc(error_dict) == Dict([ApmecError |-> error_dict])

\* Status codes with and without an entry in HTTP_EXCEPTION_MAP.
StatusCodes == {400, 404, 409, 418, 500}

\* Values of the ApmecError key.
ErrorDicts ==
    { Dict([type |-> ty, message |-> "MEA x not found", detail |-> de]) :
        ty \in {"MeaNotFound", "StateInvalid"}, de \in {"", "gone"} }
    \cup
    { Dict([type |-> "MeaNotFound", message |-> "MEA x not found"]),
      Dict([type |-> "StateInvalid", message |-> "MEA x not found"]),
      Dict([type |-> "MeaNotFound", detail |-> "gone"]),
      Dict([message |-> "MEA x not found", detail |-> "gone"]),
      EmptyDict,
      RawText("oops") }

\* Deserialized error bodies: mappings, strings and None.
ErrorContents ==
    { ApmecErrorDoc(d) : d \in ErrorDicts }
    \cup
    { Dict([ApmecError |-> EmptyDict, message |-> "generic failure"]),
      DocMessage,
      Dict([message |-> ""]),
      DocResource,
      EmptyDict,
      RawText("internal error"),
      RawEmpty,
      None }

FrameExceptionHandler(status_code, error_content) ==
    [fn |-> "exception_handler_v10", pc |-> "start", status_code |-> status_code,
     error_content |-> error_content]

\* exception_handler_v10(status_code, error_content) is called on a client
\* as it is after construction.
ClassifierInit ==
    /\ format = "json"
    /\ retries = 0
    /\ raise_errors = TRUE
    /\ EXTED_PLURALS = {}
    /\ \E status_code \in StatusCodes, error_content \in ErrorContents :
          /\ stack = <<FrameExceptionHandler(status_code, error_content)>>
          /\ op = [name |-> "exception_handler_v10", status_code |-> status_code,
                   error_content |-> error_content]
    /\ flow = Run
    /\ gen = NoGen
    /\ h = H0
    /\ peer = PeerIdle

ExceptionHandler ==
    /\ At("exception_handler_v10", "start") /\ flow.k = "run"
    /\ stack' = Rest
    /\ flow' = ExceptionHandlerV10(Top.status_code, Top.error_content)
    /\ UNCHANGED <<format, retries, raise_errors, EXTED_PLURALS, op, gen, h, peer>>

ClassifierNext == ExceptionHandler

ClassifierSpec == ClassifierInit /\ [][ClassifierNext]_vars

Classified == Done /\ op.name = "exception_handler_v10"

\* The error classes the classifier can raise.
ErrorKinds ==
    {"ApmecClientException", "StateInvalid", "BadRequest", "Unauthorized",
     "Forbidden", "NotFound", "Conflict", "InternalServerError",
     "ServiceUnavailable"}

\* C11: for status 404 and the body {"ApmecError": {"type": "MeaNotFound",
\* "message": "MEA x not found"}} the handler raises a classified (not the
\* generic) error with status_code 404 and the message "MEA x not found".
C11_NoDetailClassified ==
    (Classified /\ op.status_code = 404 /\ op.error_content = DocApmecErrorNoDetail) =>
        /\ flow.k = "raise"
        /\ flow.v.status_code = 404
        /\ flow.v.msg = MsgLines(<<"MEA x not found">>)

\* C12: when the error content is a string or None, the handler raises the
\* generic ApmecClientException with the status code and the message
\* "{status_code}-{body}".
C12_NotAMapping ==
    (Classified /\ ~IsDict(op.error_content)) =>
        flow = Raise(Exc("ApmecClientException", op.status_code,
                         MsgFmt(op.status_code, op.error_content), 0))

C12_Witness ==
    /\ Classified /\ op.status_code = 500
    /\ op.error_content = RawText("internal error")
    /\ flow.v.msg = MsgFmt(500, RawText("internal error"))

\* The ApmecError value of the call, when it has type, message and detail.
WellFormed ==
    /\ HasKey(op.error_content, "ApmecError")
    /\ IsDict(op.error_content.d.ApmecError)
    /\ {"type", "message", "detail"} \subseteq DOMAIN op.error_content.d.ApmecError.d

\* The message the handler extracts from a well-formed ApmecError: its
\* message, followed by its detail on a line of its own when there is one.
Extracted(error_dict) ==
    MsgLines(IF error_dict.detail = "" THEN <<error_dict.message>>
             ELSE <<error_dict.message, error_dict.detail>>)

\* C13: for an ApmecError with type, message and detail the class raised is
\* the one registered under the type name when there is one, even if the
\* status has an entry in HTTP_EXCEPTION_MAP; otherwise the entry of the
\* status; otherwise ApmecClientException; the error carries the status
\* code and the extracted message in all three cases.
C13_FallbackOrder ==
    (Classified /\ WellFormed) =>
        LET e == op.error_content.d.ApmecError.d
            kind == IF e.type = "StateInvalid" THEN "StateInvalid"
                    ELSE CASE op.status_code = 400 -> "BadRequest"
                           [] op.status_code = 404 -> "NotFound"
                           [] op.status_code = 409 -> "Conflict"
                           [] op.status_code = 500 -> "InternalServerError"
                           [] OTHER -> "ApmecClientException"
        IN  flow = Raise(Exc(kind, op.status_code, Extracted(e), 0))

C13_Witness ==
    /\ Classified /\ WellFormed /\ op.status_code = 404
    /\ op.error_content.d.ApmecError.d.type = "StateInvalid"
    /\ flow.k = "raise" /\ flow.v.cls = "StateInvalid"

\* C14: for every status code and every error content the handler ends by
\* raising one error of the classifier's kinds that carries the status code;
\* it never returns a value.
C14_NeverReturns ==
    Classified =>
        /\ flow.k = "raise"
        /\ flow.v.cls \in ErrorKinds
        /\ flow.v.status_code = op.status_code

C14_Witness ==
    /\ Classified /\ op.error_content = Dict([message |-> ""])
    /\ flow.k = "raise" /\ flow.v.cls = "ApmecClientException"

(***************************************************************************)
(* Transient format.                                                       *)
(***************************************************************************)
\* C15: when a wrapped operation that was called with a format keyword is
\* over, by a return or by an exception, the client's format is the one it
\* had before the call.
C15_FormatRestored ==
    (Done /\ op.name = "show_mea") => format = op.format

\* The extensions list request as get_attr_metadata sends it.
ExtensionsRequest ==
    [method |-> "GET", path |-> "ext", suffix |-> "json",
     ctype |-> ContentType("json"), params |-> NoParams]

\* C16 (state part): a request for the extensions list has the suffix json
\* and the content type of json; while get_attr_metadata waits for the
\* extensions the format is json and the format it will restore is not; when
\* the extensions arrive, the latest request sent is the extensions request.
C16_BootstrapState ==
    /\ h.lastReq.path = "ext" => h.lastReq = ExtensionsRequest
    /\ \A n \in 1..Len(stack) :
          (stack[n].fn = "get_attr_metadata" /\ stack[n].pc = "exts") =>
              (format = "json" /\ stack[n].old_request_format # "json")
    /\ (At("get_attr_metadata", "exts") /\ flow.k = "return") =>
          h.lastReq = ExtensionsRequest

\* C16 (step part): in json format get_attr_metadata returns the empty
\* mapping at once, with no request and the format unchanged; when it returns
\* after the bootstrap, the format is again the one it was called in, which
\* is the format the operation began in unless a format keyword overrode it.
C16_BootstrapStep ==
    /\ (At("get_attr_metadata", "start") /\ flow.k = "run" /\ format = "json") =>
          (stack' = Rest /\ flow' = Return(EmptyDict) /\ h' = h /\ format' = "json")
    /\ (At("get_attr_metadata", "exts") /\ flow.k = "return" /\ flow'.k = "return") =>
          /\ stack' = Rest
          /\ format' = Top.old_request_format /\ format' # "json"
          /\ op.name # "show_mea" => format' = op.format

\* C16: in a format other than json get_attr_metadata sends the extensions
\* request in json format and the format is the original one again once it
\* has returned; in json format it returns an empty mapping and sends nothing.
C16_MetadataBootstrap == [][C16_BootstrapStep]_vars /\ []C16_BootstrapState

C16_Witness ==
    /\ At("deserialize", "meta") /\ flow.k = "return" /\ flow.v # EmptyDict
    /\ format = "xml" /\ op.format = "xml" /\ h.lastReq = ExtensionsRequest

Complete == op.name = "list" /\ op.retrieve_all

Lazy == op.name = "list" /\ ~op.retrieve_all

\* C7: when list(retrieve_all=True) returns, the server has delivered N >= 1
\* pages of which exactly the last has no link for the direction; the value
\* returned is {collection: items} with the items of all N pages in page
\* order, _pagination has called self.get N times, and when no transport
\* call failed exactly N requests for the collection were sent; in json
\* format no other request was sent.
C7_AllPagesConcatenated ==
    (Done /\ Complete /\ flow.k = "return") =>
        /\ h.pages >= 1 /\ h.nomatch = 1 /\ h.last \in {"nokey", "nomatch"}
        /\ flow.v = Dict([items |-> h.items])
        /\ h.gets = h.pages
        /\ ~h.failed => h.pagetx = h.pages
        /\ op.format = "json" => ~h.other

C7_Witness ==
    /\ Done /\ Complete /\ flow = Return(Dict([items |-> <<1, 2>>]))
    /\ h.pages = 2 /\ h.pagetx = 2 /\ h.gets = 2 /\ op.params = NoParams

\* C8 (state part): at most one delivered page lacks a link for the
\* direction; a complete listing whose first page lacks one returns after
\* one self.get, one request for the collection when no transport call
\* failed and in json format no other request, and its value holds that
\* page's items.
C8_FirstPageState ==
    /\ op.name = "list" => h.nomatch <= 1
    /\ (Done /\ Complete /\ flow.k = "return" /\ h.pages = 1) =>
           /\ h.gets = 1
           /\ flow.v = Dict([items |-> h.items])
           /\ ~h.failed => h.pagetx = 1
           /\ op.format = "json" => ~h.other

\* C8 (step part): once a delivered page lacks a link for the direction, no
\* step of the operation calls self.get or the transport again.
C8_NoFurtherStep ==
    (op.name = "list" /\ h.nomatch > 0 /\ op' = op) =>
        (h'.gets = h.gets /\ h'.pagetx = h.pagetx /\ h'.tx = h.tx)

\* C8: a page without a links key, or without a link whose rel is the
\* direction, ends pagination after that page: no further request is sent,
\* and a first page without links means one request and that page's items.
C8_PageWithoutLinkEnds == [][C8_NoFurtherStep]_vars /\ []C8_FirstPageState

C8_Witness ==
    /\ Done /\ Complete /\ flow = Return(Dict([items |-> <<1>>]))
    /\ h.last = "nokey" /\ h.pages = 1 /\ h.gets = 1 /\ h.pagetx = 1

\* C9: a complete listing that has started eventually ends, whatever the
\* server answers.
C9_ListTerminates == Complete ~> Done

\* C10: list(retrieve_all=False) sends nothing until the caller advances the
\* sequence; _pagination never asks for more pages than the caller asked
\* for, and when the caller holds its k-th page exactly k pages have been
\* asked for and delivered (k requests for the collection when no transport
\* call failed); the sequence ends only after a page without a link for the
\* direction, and advancing past such a page ends it without a request.
C10_LazyPages ==
    Lazy =>
        /\ h.advances = 0 => (h.tx = 0 /\ h.gets = 0 /\ h.pagetx = 0)
        /\ h.gets <= h.advances /\ h.pages <= h.gets
        /\ (Done /\ flow.k = "yield") =>
               /\ h.pages = h.advances /\ h.gets = h.advances
               /\ ~h.failed => h.pagetx = h.advances
        /\ (Done /\ flow = Return(None)) =>
               (h.nomatch = 1 /\ h.last \in {"nokey", "nomatch"})
        /\ (Done /\ h.nomatch > 0 /\ h.advances > h.pages) =>
               /\ flow = Return(None) \/ (flow.k = "raise" /\ flow.v.cls = "TypeError")
               /\ h.gets = h.pages

C10_Witness ==
    /\ Lazy /\ Done /\ flow.k = "yield" /\ h.advances = 2 /\ h.pagetx = 2
    /\ h.items = <<1, 2>> /\ h.last = "match"

(***************************************************************************)
(* The create commands of apmec/v1_0/mem/mea.py, meo/mes.py and            *)
(* meo/meca.py: args2body of CreateMEA, CreateMES and CreateMECA, then the *)
(* client's create_mea, create_mes or create_meca with the body.           *)
(***************************************************************************)
CreateCommands == {"mea", "mes", "meca"}

\* The descriptor a command instantiates.
Descriptor(cmd) ==
    CASE cmd = "mea" -> "mead"
      [] cmd = "mes" -> "mesd"
      [] OTHER -> "mecad"

\* The key of the descriptor's id in the body.
DescriptorId(cmd) ==
    CASE cmd = "mea" -> "mead_id"
      [] cmd = "mes" -> "mesd_id"
      [] OTHER -> "mecad_id"

\* A create that posts to the descriptors' collection.
CreatePathDescriptors(cmd) ==
    CASE cmd = "mea" -> "meads"
      [] cmd = "mes" -> "mesds"
      [] OTHER -> "mecads"

\* meas_path, mess_path, mecas_path
CreatePath(cmd) ==
    CASE cmd = "mea" -> "meas"
      [] cmd = "mes" -> "mess"
      [] OTHER -> "mecas"

\* An option that names a file holds what the file holds; NoFile: the option
\* is not given.
NoFile == "<not given>"

GivenFiles == {"", "a: [", "tosca: 1"}

\* parsed_args of one run of a command.
ParsedArgs ==
    { [cmd |-> c, request_format |-> f, config_file |-> cf, vim_name |-> vn,
       vim_id |-> vi, desc_name |-> dn, desc_id |-> di, template |-> te,
       param_file |-> pf] :
        c \in CreateCommands, f \in {"json", "xml"},
        cf \in {NoFile} \cup GivenFiles, vn \in {"", "vim"}, vi \in {"", "vim_id"},
        dn \in {"", "name"}, di \in {"", "mead"}, te \in {NoFile} \cup GivenFiles,
        pf \in {NoFile, "a: [", "tosca: 1"} }

\* The parser: --config-file exists for CreateMEA only, --vim-id and
\* --vim-name exclude each other, and exactly one of the descriptor's id,
\* name and template is given.
Parsable(a) ==
    /\ a.cmd # "mea" => a.config_file = NoFile
    /\ ~(a.vim_name # "" /\ a.vim_id # "")
    /\ Cardinality({x \in {"id", "name", "template"} :
                       \/ x = "id" /\ a.desc_id # ""
                       \/ x = "name" /\ a.desc_name # ""
                       \/ x = "template" /\ a.template # NoFile}) = 1

\* args = {'attributes': {}}
FrameCreateArgs2Body(parsed_args) ==
    [fn |-> "create_args2body", pc |-> "config", parsed_args |-> parsed_args,
     args |-> Dict([attributes |-> EmptyDict])]

\* args['attributes'][k] = v
SetAttribute(args, k, v) == SetKey(args, "attributes", SetKey(args.d.attributes, k, v))

\* if parsed_args.config_file: config = yaml.load(...)
\* if config: args['attributes']['config'] = config
\* apmec_client.format = parsed_args.request_format
CreateConfig ==
    /\ At("create_args2body", "config") /\ flow.k = "run"
    /\ LET a == Top.parsed_args
           given == a.cmd = "mea" /\ a.config_file # NoFile
           loaded == YamlLoad(a.config_file)
       IN  IF given /\ loaded.k = "raise"
           THEN /\ stack' = Rest
                /\ flow' = InvalidInput(MsgObj(loaded.v))
                /\ format' = format
           ELSE /\ stack' = Goto([Top EXCEPT !.pc = "vim",
                                     !.args = IF given /\ Bool(loaded.v)
                                              THEN SetAttribute(@, "config", loaded.v)
                                              ELSE @])
                /\ flow' = Run
                /\ format' = a.request_format
    /\ UNCHANGED <<retries, raise_errors, EXTED_PLURALS, op, gen, h, peer>>

\* find_resourceid_by_name_or_id(apmec_client, resource, name): the client
\* is asked for the resources of that name.
FrameLookup(resource) == GetFrame(resource, None, NoParams)

\* The id of the resource found, or the error of a lookup that found none.
FoundId(data, resource) ==
    IF IsDict(data) THEN Return(resource)
    ELSE Raise(Exc("NotFound", 404, MsgLines(<<"Unable to find", resource>>), 0))

\* if parsed_args.vim_name: _id = find_resourceid_by_name_or_id(..., 'vim', ...)
CreateVim ==
    /\ At("create_args2body", "vim") /\ flow.k = "run"
    /\ stack' = IF Top.parsed_args.vim_name # ""
                THEN Call([Top EXCEPT !.pc = "vim_id"], FrameLookup("vim"))
                ELSE Goto([Top EXCEPT !.pc = "descriptor"])
    /\ UNCHANGED <<format, retries, raise_errors, EXTED_PLURALS, flow, op, gen, h, peer>>

\* parsed_args.vim_id = _id
CreateVimId ==
    /\ At("create_args2body", "vim_id") /\ flow.k = "return"
    /\ LET found == FoundId(flow.v, "vim")
       IN  IF found.k = "raise"
           THEN stack' = Rest /\ flow' = found
           ELSE /\ stack' = Goto([Top EXCEPT !.pc = "descriptor",
                                             !.parsed_args.vim_id = found.v])
                /\ flow' = Run
    /\ UNCHANGED <<format, retries, raise_errors, EXTED_PLURALS, op, gen, h, peer>>

\* if not args['mesd_template']: raise InvalidInput('The mesd file is empty')
\* (CreateMES and CreateMECA; CreateMEA has no such check)
ChecksEmpty(cmd) == cmd \in {"mes", "meca"}

\* if parsed_args.mead_name: _id = find_resourceid_by_name_or_id(...)
\* elif parsed_args.mead_template: args['mead_template'] = yaml.load(...)
CreateDescriptor ==
    /\ At("create_args2body", "descriptor") /\ flow.k = "run"
    /\ LET a == Top.parsed_args
           loaded == YamlLoad(a.template)
       IN  IF a.desc_name # ""
           THEN /\ stack' = Call([Top EXCEPT !.pc = "desc_id"],
                                 FrameLookup(Descriptor(a.cmd)))
                /\ flow' = Run
           ELSE IF a.template = NoFile
           THEN /\ stack' = Goto([Top EXCEPT !.pc = "param"])
                /\ flow' = Run
           ELSE IF loaded.k = "raise"
           THEN /\ stack' = Rest
                /\ flow' = InvalidInput(MsgObj(loaded.v))
           ELSE IF ChecksEmpty(a.cmd) /\ ~Bool(loaded.v)
           THEN /\ stack' = Rest
                /\ flow' = InvalidInput(MsgLines(<<"The file is empty">>))
           ELSE /\ stack' = Goto([Top EXCEPT !.pc = "param",
                                             !.args = SetKey(@, "template", loaded.v)])
                /\ flow' = Run
    /\ UNCHANGED <<format, retries, raise_errors, EXTED_PLURALS, op, gen, h, peer>>

\* parsed_args.mead_id = _id
CreateDescriptorId ==
    /\ At("create_args2body", "desc_id") /\ flow.k = "return"
    /\ LET found == FoundId(flow.v, Descriptor(Top.parsed_args.cmd))
       IN  IF found.k = "raise"
           THEN stack' = Rest /\ flow' = found
           ELSE /\ stack' = Goto([Top EXCEPT !.pc = "param",
                                             !.parsed_args.desc_id = found.v])
                /\ flow' = Run
    /\ UNCHANGED <<format, retries, raise_errors, EXTED_PLURALS, op, gen, h, peer>>

\* update_dict(parsed_args, body[self.resource],
\*             ['tenant_id', 'name', 'description', 'mead_id', 'vim_id']):
\* the options that are given are copied.
UpdateDict(a, args) ==
    LET named == SetKey(SetKey(args, "name", "my_name"), "description", "my-description")
        withd == IF a.desc_id # ""
                 THEN SetKey(named, DescriptorId(a.cmd), a.desc_id) ELSE named
    IN  IF a.vim_id # "" THEN SetKey(withd, "vim_id", a.vim_id) ELSE withd

\* body = {self.resource: args}
CreateBody(a, args) == SetKey(EmptyDict, a.cmd, UpdateDict(a, args))

\* if parsed_args.param_file: args['attributes']['param_values'] = yaml.load(...)
\* update_dict(...); return body
CreateParam ==
    /\ At("create_args2body", "param") /\ flow.k = "run"
    /\ stack' = Rest
    /\ LET a == Top.parsed_args
           given == a.param_file # NoFile
           loaded == YamlLoad(a.param_file)
       IN  flow' = IF given /\ loaded.k = "raise"
                   THEN InvalidInput(MsgObj(loaded.v))
                   ELSE Return(CreateBody(a, IF given
                                             THEN SetAttribute(Top.args, "param_values",
                                                               loaded.v)
                                             ELSE Top.args))
    /\ UNCHANGED <<format, retries, raise_errors, EXTED_PLURALS, op, gen, h, peer>>

\* The command creates the resource with the body args2body returned:
\* create_mea: return self.post(self.meas_path, body=body)
Create ==
    /\ stack = <<>> /\ flow.k = "return"
    /\ op.name = "create" /\ ~op.created
    /\ stack' = <<PostTo(CreatePath(op.parsed_args.cmd), flow.v)>>
    /\ flow' = Run
    /\ op' = [op EXCEPT !.created = TRUE, !.body = flow.v]
    /\ UNCHANGED <<format, retries, raise_errors, EXTED_PLURALS, gen, h, peer>>

CreateInit ==
    /\ format = "json"
    /\ retries = 0
    /\ raise_errors = TRUE
    /\ EXTED_PLURALS = {}
    /\ \E a \in ParsedArgs :
          /\ Parsable(a)
          /\ stack = <<FrameCreateArgs2Body(a)>>
          /\ op = [name |-> "create", parsed_args |-> a, created |-> FALSE,
                   body |-> None]
    /\ flow = Run
    /\ gen = NoGen
    /\ h = H0
    /\ peer = PeerIdle

CreateNext ==
    \/ CreateConfig
    \/ CreateVim
    \/ CreateVimId
    \/ CreateDescriptor
    \/ CreateDescriptorId
    \/ CreateParam
    \/ Create
    \/ RetryLoop
    \/ RetryReturn
    \/ RetryCatch
    \/ DoRequestStart
    \/ DoRequestSerialized
    \/ DoRequestSend
    \/ DoRequestReturn
    \/ SerializeStart
    \/ SerializeDone
    \/ DeserializeStart
    \/ DeserializeDone
    \/ GetAttrMetadataStart
    \/ GetAttrMetadataExts
    \/ WithParamsStart
    \/ WithParamsReturn
    \/ HandleFaultStart
    \/ HandleFaultClassify
    \/ Unwind

CreateSpec == CreateInit /\ [][CreateNext]_vars

\* args2body has raised InvalidInput to the command.
InvalidInputRaised ==
    Done /\ op.name = "create" /\ flow.k = "raise" /\ flow.v.cls = "InvalidInput"

\* C21: if args2body of CreateMEA, CreateMES or CreateMECA raises
\* InvalidInput, the command has issued no HTTP request, whatever the
\* arguments are (a name to look up included).
C21_InvalidInputBeforeNetwork == InvalidInputRaised => h.tx = 0

\* CreateMEA is run with --mead-id and without a name to look up.
IdBased ==
    /\ op.name = "create" /\ op.parsed_args.cmd = "mea"
    /\ op.parsed_args.desc_id # ""
    /\ op.parsed_args.vim_name = ""

\* The command has made the request for the resource and it is over.
Created == Done /\ op.name = "create" /\ op.created

\* The inner mapping of the envelope CreateMEA sends.
MeaOf(body) == body.d.mea.d

MeadOf(body) == body.d.mead.d

\* C23: the one request create_mead sends is a POST to the meads collection
\* whose body is the caller's envelope with mead.service_types set to
\* [{'service_type': 'mead'}], whatever the caller supplied there, and every
\* other field as the caller gave it.
C23_ServiceTypesSet ==
    (op.name \in {"args2body", "create_mead"} /\ op.created) =>
        /\ h.tx <= 1
        /\ At("do_request", "send") =>
              /\ h.tx = 0
              /\ Top.method = "POST" /\ Top.path = "meads"
              /\ Top.body.t = "raw" /\ Top.body.wire = format
              /\ DOMAIN Top.body.doc.d = DOMAIN op.body.d
              /\ LET sent == MeadOf(Top.body.doc)
                     given == MeadOf(op.body)
                 IN  /\ DOMAIN sent = DOMAIN given \cup {"service_types"}
                     /\ sent.service_types = <<[service_type |-> "mead"]>>
                     /\ \A k \in DOMAIN given \ {"service_types"} : sent[k] = given[k]
        /\ Done => h.tx = 1

C23_Witness ==
    /\ Done /\ op.name = "create_mead" /\ h.tx = 1
    /\ "service_types" \in DOMAIN MeadOf(op.body)
    /\ MeadOf(op.body).service_types = <<[service_type |-> "other"]>>
    /\ h.lastReq.method = "POST" /\ h.lastReq.path = "meads"

\* C24: in the retry loop of a get, put or delete the i-th attempt (counted
\* from 0) starts after exactly i sleeps; a sleep is entered only after a
\* failed attempt that is not the last, and is followed by another attempt;
\* when the call ends, by a result or by an error, k attempts were made and
\* k - 1 sleeps.
C24_SleepBetweenAttempts ==
    op.name \in Retried =>
        /\ stack # <<>> =>
              LET r == stack[1]
              IN  /\ r.pc = "try" => (h.sleeps = r.i /\ h.attempts \in {r.i, r.i + 1})
                  /\ r.pc = "sleep" =>
                        /\ h.sleeps = r.i /\ h.attempts = r.i + 1
                        /\ r.i < retries /\ h.failed
                  /\ r.pc = "loop" =>
                        /\ h.attempts = r.i
                        /\ h.sleeps = IF r.i <= retries THEN r.i ELSE retries
        /\ Done => h.attempts = h.sleeps + 1

C24_Witness ==
    /\ Done /\ op.name = "get" /\ retries = 1 /\ ~raise_errors
    /\ ~h.answered /\ ConnectionFailedRaised
    /\ h.attempts = 2 /\ h.sleeps = 1

\* The first link of a page whose rel is dir.
FirstRel(page, dir) ==
    LET links == page.d.links
    IN  links[CHOOSE n \in 1..Len(links) :
                 /\ links[n].rel = dir
                 /\ \A m \in 1..(n - 1) : links[m].rel # dir]

\* What C25 says of a _pagination frame f with the frames above it.
DirectionKept(f, above) ==
    /\ f.pc # "start" => f.linkrel = Direction
    /\ (f.pc \in {"while", "got"} /\ f.res = None) => f.params = op.params
    /\ (f.res # None /\ (f.pc = "got" \/ (f.pc = "while" /\ f.next))) =>
          /\ HasRel(f.res, Direction)
          /\ f.params = Params(FirstRel(f.res, Direction).href, TRUE)
    /\ \A m \in 1..Len(above) :
          (above[m].fn \in {"retry_request", "do_request"} /\ above[m].path = "coll")
              => above[m].params = f.params

\* C25: the link relation _pagination follows is the one the initial
\* page_reverse selects ('previous' if set, else 'next') for as long as the
\* generator lives; the first request carries the caller's params, and every
\* later request carries exactly the query parameters of the first link of
\* the page before whose rel is that relation, a page_reverse among them
\* included, and nothing of the params before.
C25_DirectionChosenOnce ==
    op.name = "list" =>
        /\ \A n \in 1..Len(stack) :
              stack[n].fn = "_pagination" =>
                  DirectionKept(stack[n], SubSeq(stack, n + 1, Len(stack)))
        /\ gen.state = "suspended" => DirectionKept(gen.frame, <<>>)

C25_Witness ==
    /\ op.name = "list" /\ op.params = NoParams
    /\ At("do_request", "send") /\ Top.path = "coll"
    /\ Top.params = Params(Q2, TRUE)
    /\ \E n \in 1..Len(stack) :
          /\ stack[n].fn = "_pagination" /\ stack[n].linkrel = "next"
          /\ stack[n].res # None

\* The error content has a non-empty ApmecError mapping that lacks one of
\* type, message and detail.
KeyMissing ==
    /\ HasKey(op.error_content, "ApmecError")
    /\ IsDict(op.error_content.d.ApmecError)
    /\ DOMAIN op.error_content.d.ApmecError.d # {}
    /\ ~({"type", "message", "detail"} \subseteq DOMAIN op.error_content.d.ApmecError.d)

\* C26: when the ApmecError mapping of the body lacks type, message or
\* detail, the handler raises the generic ApmecClientException with the
\* status code and, as its message, the response body as a whole.
C26_BodyAsMessage ==
    (Classified /\ KeyMissing) =>
        flow = Raise(Exc("ApmecClientException", op.status_code,
                         MsgObj(op.error_content), 0))

\* The last answer to the operation's own request was status 500 with the
\* body `internal error`.
InternalErrorAnswered ==
    /\ Done /\ op.name \in Requests
    /\ h.ownStatus = 500 /\ h.ownRaw = RawText("internal error")

\* C27: a get, put, delete or post that is answered with status 500 and the
\* body `internal error` raises the generic ApmecClientException with
\* status_code 500 and the message "500-internal error".
C27_StatusPrefixedMessage ==
    InternalErrorAnswered =>
        flow = Raise(Exc("ApmecClientException", 500,
                         MsgFmt(500, RawText("internal error")), 0))

\* C28: when a get, put, delete or post ends by raising, the client's format
\* is the one it had when the call was made.
C28_FailureKeepsFormat ==
    (Done /\ op.name \in Requests /\ flow.k = "raise") => format = op.format

(***************************************************************************)
(* The list operations of the resources: list_meads, list_meas,            *)
(* list_mesds, list_mess, list_mecads, list_mecas and list_mea_events call *)
(* list and then look into what it returned.                               *)
(***************************************************************************)
ListOperations ==
    {"list_meads", "list_meas", "list_mesds", "list_mess", "list_mecads",
     "list_mecas", "list_mea_events"}

\* list_mea_events: _params['resource_type'] = 'mea'
ListParams(function, params) ==
    IF function = "list_mea_events"
    THEN Params(params.q \cup {<<"resource_type", "mea">>}, params.parsed)
    ELSE params

FrameListOperation(function, retrieve_all, params) ==
    [fn |-> "list_operation", pc |-> "start", function |-> function,
     retrieve_all |-> retrieve_all, params |-> params]

\* meads_dict = self.list(self._MEAD + 's', self.meads_path, retrieve_all,
\*                        **_params)
ListOperationStart ==
    /\ At("list_operation", "start") /\ flow.k = "run"
    /\ stack' = Call([Top EXCEPT !.pc = "listed"],
                     FrameList(Top.retrieve_all, ListParams(Top.function, Top.params)))
    /\ UNCHANGED <<format, retries, raise_errors, EXTED_PLURALS, flow, op, gen, h, peer>>

\* meads_dict['meads']: a mapping has items, a generator has none.
IsSubscriptable(v) == IsDict(v)

\* What the operation returns for the mapping list returned: the mapping
\* itself, its descriptions and error reasons cut to the default length
\* (the items of the model have none), or the events under 'mea_events'.
ListOperationResult(function, listed) ==
    IF function = "list_mea_events"
    THEN Dict([mea_events |-> listed.d.items])
    ELSE listed

\* for mead in meads_dict['meads']: ...; return meads_dict
ListOperationDone ==
    /\ At("list_operation", "listed") /\ flow.k = "return"
    /\ stack' = Rest
    /\ flow' = IF IsSubscriptable(flow.v)
               THEN Return(ListOperationResult(Top.function, flow.v))
               ELSE Raise(Exc("TypeError", 0,
                              MsgLines(<<"'generator' object is not subscriptable">>), 0))
    /\ UNCHANGED <<format, retries, raise_errors, EXTED_PLURALS, op, gen, h, peer>>

ListOperationInit ==
    /\ format = "json"
    /\ retries = 0
    /\ raise_errors = TRUE
    /\ EXTED_PLURALS = {}
    /\ \E function \in ListOperations, retrieve_all \in BOOLEAN,
          params \in {NoParams, Reverse} :
          /\ stack = <<FrameListOperation(function, retrieve_all, params)>>
          /\ op = [name |-> "list_operation", function |-> function,
                   retrieve_all |-> retrieve_all, params |-> params,
                   body |-> None, format |-> "json"]
    /\ flow = Run
    /\ gen = NoGen
    /\ h = H0
    /\ peer = PeerIdle

ListOperationNext ==
    \/ ListOperationStart
    \/ ListOperationDone
    \/ ListStart
    \/ ListNext
    \/ ListExtend
    \/ ListReturn
    \/ PaginationStart
    \/ PaginationWhile
    \/ PaginationYield
    \/ PaginationScan
    \/ RetryLoop
    \/ RetryReturn
    \/ RetryCatch
    \/ DoRequestStart
    \/ DoRequestSend
    \/ DoRequestReturn
    \/ DeserializeStart
    \/ DeserializeDone
    \/ GetAttrMetadataStart
    \/ HandleFaultStart
    \/ HandleFaultClassify
    \/ Unwind

ListOperationSpec == ListOperationInit /\ [][ListOperationNext]_vars

\* C29: a list operation of a resource called with retrieve_all=False
\* returns the generator that list made, raises nothing, and no request has
\* been sent when it returns.
C29_LazyListOperations ==
    (Done /\ op.name = "list_operation" /\ ~op.retrieve_all) =>
        /\ flow = Return([t |-> "generator"])
        /\ gen.state = "created"
        /\ h.tx = 0

\* do_request has returned to the retry loop of a get, put or delete.
AttemptReturned ==
    /\ op.name \in Retried
    /\ Len(stack) = 1 /\ At("retry_request", "try") /\ flow.k = "return"

\* The result of the operation's latest answered request.
LatestResult == IF h.ownStatus = 204 THEN h.ownRaw ELSE h.ownRaw.doc

C30_ReturnedState ==
    /\ AttemptReturned =>
          /\ Top.i <= retries
          /\ h.attempts = Top.i + 1
          /\ h.sleeps = Top.i
          /\ h.ownStatus \in WireSuccess
          /\ flow.v = LatestResult
    /\ (Done /\ op.name \in Retried /\ flow.k = "return") =>
          /\ h.attempts <= retries + 1
          /\ h.attempts = h.sleeps + 1
          /\ h.ownStatus \in WireSuccess
          /\ flow.v = LatestResult
          /\ op.format = "json" => (h.tx = h.attempts /\ h.txown = h.attempts)

C30_ReturnedStep ==
    AttemptReturned => (stack' = <<>> /\ flow' = flow /\ h' = h)

\* C30: the retry loop of a get, put or delete stops at the first attempt
\* that returns: when attempt k returns, it is one of the retries + 1
\* attempts allowed, the k - 1 attempts before it each ended in a
\* ConnectionFailed that was followed by a sleep, and the next step hands
\* attempt k's result to the caller with no further attempt, request or
\* sleep and no error, whatever raise_errors is; in json format exactly k
\* requests were sent.
C30_StopsAtFirstSuccess == [][C30_ReturnedStep]_vars /\ []C30_ReturnedState

C30_Witness ==
    /\ Done /\ op.name = "delete" /\ retries = 1 /\ ~raise_errors
    /\ h.attempts = 2 /\ h.sleeps = 1 /\ h.tx = 2 /\ h.ownStatus = 204
    /\ flow = Return(h.ownRaw)

====
